---------------------------- MODULE Spec2Model ----------------------------
(***************************************************************************)
(* Model of ri_is_up_bot.py: a Discord bot that probes one URL on a        *)
(* periodic tasks.loop, counts consecutive failures, and reports status    *)
(* changes and sustained outages to a channel and to one user.             *)
(*                                                                         *)
(* One cycle of check_website is split at its suspension points: the GET   *)
(* (lines 77-92), the user lookup (116-117), the channel send (142) and    *)
(* the DM send (146).  Everything between two suspension points is one     *)
(* action.                                                                 *)
(***************************************************************************)
EXTENDS Naturals, Integers, Sequences, FiniteSets, TLC

(* ------------------------------ bounds -------------------------------- *)
MaxCycles == 4      \* cycles of check_website explored
MaxReady == 2       \* ready events delivered by the gateway

(* --------------------------- configuration ---------------------------- *)
MAX_CONSECUTIVE_FAILURES == 3
website_name == "ResilientInterface"
website_home_url == "https://resilientinterface.com"
check_url == "https://resilientinterface.com/resources/images/info-hub.png"

(* content-type header values, as character sequences *)
ImagePrefix == <<"i","m","a","g","e","/">>
ImagePng == <<"i","m","a","g","e","/","p","n","g">>
ImageNoSlash == <<"i","m","a","g","e">>
TextHtml == <<"t","e","x","t","/","h","t","m","l">>
NoContentType == <<>>     \* headers.get('content-type', '') when absent

ContentTypes == {ImagePng, ImageNoSlash, TextHtml, NoContentType}
StatusCodes == {200, 404}
ProbeErrors == {"TimeoutError", "ClientConnectorError"}
ExitErrors == {"ClientOSError"}
ElapsedMs == {0, 250}    \* int((time.time() - start_time) * 1000)

(* str.startswith *)
StartsWith(s, p) == Len(s) >= Len(p) /\ SubSeq(s, 1, Len(p)) = p

(* What one GET can do: fail before a response is available, or deliver   *)
(* a response whose context managers then exit cleanly or raise           *)
(* (exit_error); both `async with` exits lie inside the try block.        *)
ProbeOutcomes ==
  [kind : {"error"}, code : {0}, ctype : {NoContentType},
   error : ProbeErrors, exit_error : {"none"}]
  \cup
  [kind : {"response"}, code : StatusCodes, ctype : ContentTypes,
   error : {"none"}, exit_error : {"none"} \cup ExitErrors]

(* ----------------------------- messages ------------------------------- *)
MsgOnline(ms) ==
  [text |-> "is online. Response time:", name |-> website_name,
   code |-> 0, ctype |-> NoContentType, error |-> "none", ms |-> ms]
MsgInvalid(code, ctype) ==
  [text |-> "returned status, but invalid content type:", name |-> website_name,
   code |-> code, ctype |-> ctype, error |-> "none", ms |-> 0]
MsgDown(err) ==
  [text |-> "is down. Error:", name |-> website_name,
   code |-> 0, ctype |-> NoContentType, error |-> err, ms |-> 0]
NoMessage ==
  [text |-> "", name |-> "", code |-> 0, ctype |-> NoContentType,
   error |-> "none", ms |-> 0]

(* The status dict built at lines 69-74 *)
NewStatus(ts) ==
  [online |-> FALSE, response_time |-> 0, message |-> NoMessage, timestamp |-> ts]

(* no GET has finished in the running cycle *)
NoResponse ==
  [kind |-> "none", code |-> 0, ctype |-> NoContentType,
   error |-> "none", exit_error |-> "none"]

None == <<>>
Some(x) == <<x>>

(* ------------------------------- state -------------------------------- *)
VARIABLES
  last_status,           \* global last_status: None or Some(status)
  consecutive_failures,  \* global consecutive_failures
  ready,                 \* the client's ready flag (bot.wait_until_ready)
  ready_events,          \* number of ready events dispatched so far
  start_failed,          \* a check_website.start() call raised RuntimeError
  pc,                    \* position of the check_website task
  status,                \* the local status dict of the running cycle
  response,              \* what the GET of the running cycle did (response / e)
  status_channel,        \* report_status's local status_channel: unset / found / None
  user,                  \* report_status's local user: unset / found / None
  embed,                 \* the local embed of report_status
  cycle,                 \* number of cycles started (also the clock)
  prev_online,           \* online flag of the previous cycle's record: <<>> or <<flag>>
  offline_run,           \* number of offline records since the last online record
  nagging,               \* an offline record of the current run met the threshold
  triggered,             \* report_status was called in the current cycle
  escaped,               \* how the current cycle's body ended: none / retry / fatal
  channel_out,           \* embeds delivered to the channel in the current cycle
  dm_out,                \* embeds delivered to the user in the current cycle
  dm_attempted,          \* user.send was called in the current cycle
  console                \* lines printed by report_status in the current cycle

vars == <<last_status, consecutive_failures, ready, ready_events, start_failed, pc,
          status, response, status_channel, user, embed, cycle, prev_online, offline_run, nagging, triggered, escaped,
          channel_out, dm_out, dm_attempted, console>>

NoEmbed == <<>>

Init ==
  /\ last_status = None
  /\ consecutive_failures = 0
  /\ ready = FALSE
  /\ ready_events = 0
  /\ start_failed = FALSE
  /\ pc = "unstarted"
  /\ status = NewStatus(0)
  /\ response = NoResponse
  /\ status_channel = "unset"
  /\ user = "unset"
  /\ embed = NoEmbed
  /\ cycle = 0
  /\ prev_online = <<>>
  /\ offline_run = 0
  /\ nagging = FALSE
  /\ triggered = FALSE
  /\ escaped = "none"
  /\ channel_out = <<>>
  /\ dm_out = <<>>
  /\ dm_attempted = FALSE
  /\ console = {}


(* ------------------------- check_website: probe ----------------------- *)
(* lines 81-92 with `or` in place of `and` in the test of line 85 *)
AfterResponseOr(st, cf, out, ms) ==
  LET st1 == [st EXCEPT !.response_time = ms] IN
  IF out.code = 200 \/ StartsWith(out.ctype, ImagePrefix)
  THEN [status |-> [st1 EXCEPT !.online = TRUE, !.message = MsgOnline(ms)],
        cf |-> 0]
  ELSE [status |-> [st1 EXCEPT !.online = FALSE,
                               !.message = MsgInvalid(out.code, out.ctype)],
        cf |-> cf + 1]

(* lines 81-92: a response arrived *)
AfterResponse(st, cf, out, ms) ==
  LET st1 == [st EXCEPT !.response_time = ms] IN
  IF out.code = 200 /\ StartsWith(out.ctype, ImagePrefix)
  THEN [status |-> [st1 EXCEPT !.online = TRUE, !.message = MsgOnline(ms)],
        cf |-> 0]
  ELSE [status |-> [st1 EXCEPT !.online = FALSE,
                               !.message = MsgInvalid(out.code, out.ctype)],
        cf |-> cf + 1]

(* lines 94-98: the except clause *)
OnException(st, cf, err, ms) ==
  [status |-> [st EXCEPT !.online = FALSE, !.response_time = ms,
                         !.message = MsgDown(err)],
   cf |-> cf + 1]

(* lines 76-98: the whole try statement.  ms is the elapsed time when the *)
(* headers arrive (or when the request fails), ms2 the elapsed time when  *)
(* an exit of the context managers fails.                                 *)
Probe(st, cf, out, ms, ms2) ==
  IF out.kind = "error"
  THEN OnException(st, cf, out.error, ms)
  ELSE LET r == AfterResponse(st, cf, out, ms) IN
       IF out.exit_error = "none" THEN r
       ELSE OnException(r.status, r.cf, out.exit_error, ms2)

(* the condition of lines 107-109 without its `last_status is None` test *)
ShouldNotifyNoFirst(last, st, cf) ==
  \/ (last # None /\ last[1].online # st.online)
  \/ (cf >= MAX_CONSECUTIVE_FAILURES /\ ~st.online)

(* lines 107-109: the condition guarding report_status *)
ShouldNotify(last, st, cf) ==
  \/ last = None
  \/ last[1].online # st.online
  \/ (cf >= MAX_CONSECUTIVE_FAILURES /\ ~st.online)

(* ------------------------- tasks.loop scheduling ---------------------- *)
(* The loop created at line 63 (discord.ext.tasks, reconnect left at its  *)
(* default) answers connection-type exceptions of the body (OSError,      *)
(* aiohttp.ClientError, asyncio.TimeoutError, gateway errors) by backing  *)
(* off and calling the body again; any other exception ends the task.     *)
(* A task that has ended is launched again by a later start().            *)
Retryable(exc) == exc \in {"ClientConnectorError", "TimeoutError"}

LoopAfterError(exc) == IF Retryable(exc) THEN "backoff" ELSE "stopped"

(* start() without its test for a task that is still running *)
TaskRunningNever == FALSE

TaskRunning == pc \notin {"unstarted", "stopped"}

(* on_ready re-initialising the monitor and launching a loop on every     *)
(* ready event                                                            *)
OnReadyRestarts ==
  /\ ready_events < MaxReady
  /\ ready_events' = ready_events + 1
  /\ ready' = TRUE
  /\ start_failed' = start_failed
  /\ pc' = "before_loop"
  /\ last_status' = None
  /\ consecutive_failures' = 0
  /\ UNCHANGED <<status, response, status_channel, user, embed, cycle, prev_online,
                 offline_run, nagging, triggered, escaped, channel_out, dm_out,
                 dm_attempted, console>>

(* on_ready, lines 54-61: check_website.start() launches the task, or     *)
(* raises RuntimeError when the task is already running                   *)
OnReady ==
  /\ ready_events < MaxReady
  /\ ready_events' = ready_events + 1
  /\ ready' = TRUE
  /\ IF TaskRunning
     THEN /\ start_failed' = TRUE
          /\ pc' = pc
     ELSE /\ start_failed' = start_failed
          /\ pc' = "before_loop"
  /\ UNCHANGED <<last_status, consecutive_failures, status, response, status_channel, user,
                 embed,
                 cycle, prev_online,
                 offline_run, nagging, triggered, escaped, channel_out, dm_out,
                 dm_attempted, console>>

(* a loop that waits one interval before its first iteration *)
BeforeLoopSleepsFirst ==
  /\ pc = "before_loop"
  /\ ready
  /\ pc' = "sleep"
  /\ UNCHANGED <<last_status, consecutive_failures, ready, ready_events, start_failed,
                 status, response, status_channel, user, embed, cycle, prev_online,
                 offline_run, nagging, triggered, escaped, channel_out, dm_out,
                 dm_attempted, console>>

(* before_check_website, lines 152-155 *)
BeforeLoop ==
  /\ pc = "before_loop"
  /\ ready
  /\ pc' = "tick"
  /\ UNCHANGED <<last_status, consecutive_failures, ready, ready_events, start_failed,
                 status, response, status_channel, user, embed, cycle, prev_online,
                 offline_run,
                 nagging, triggered, escaped, channel_out, dm_out, dm_attempted, console>>

(* the interval of line 63 has passed since the last completed cycle *)
IntervalElapsed ==
  /\ pc = "sleep"
  /\ pc' = "tick"
  /\ UNCHANGED <<last_status, consecutive_failures, ready, ready_events, start_failed,
                 status, response, status_channel, user, embed, cycle, prev_online,
                 offline_run,
                 nagging, triggered, escaped, channel_out, dm_out, dm_attempted, console>>

(* the loop's back-off after a retryable exception has passed *)
BackoffElapsed ==
  /\ pc = "backoff"
  /\ pc' = "tick"
  /\ UNCHANGED <<last_status, consecutive_failures, ready, ready_events, start_failed,
                 status, response, status_channel, user, embed, cycle, prev_online,
                 offline_run,
                 nagging, triggered, escaped, channel_out, dm_out, dm_attempted, console>>

(* --------------------------- check_website ---------------------------- *)
(* lines 68-79: the body starts and suspends in the GET *)
ProbeBegin ==
  /\ pc = "tick"
  /\ cycle < MaxCycles
  /\ cycle' = cycle + 1
  /\ status' = NewStatus(cycle + 1)
  /\ response' = NoResponse
  /\ status_channel' = "unset"
  /\ user' = "unset"
  /\ embed' = NoEmbed
  /\ escaped' = "none"
  /\ channel_out' = <<>>
  /\ dm_out' = <<>>
  /\ dm_attempted' = FALSE
  /\ console' = {}
  /\ triggered' = FALSE
  /\ prev_online' = (IF cycle = 0 THEN <<>> ELSE <<status.online>>)
  /\ pc' = "get"
  /\ UNCHANGED <<last_status, consecutive_failures, ready, ready_events, start_failed,
                 offline_run, nagging>>

(* lines 79-112: the GET finishes, the counter is updated and the         *)
(* decision is taken; without a report the cycle ends here (line 112)     *)
ProbeEnd ==
  /\ pc = "get"
  /\ \E out \in ProbeOutcomes, ms \in ElapsedMs, ms2 \in ElapsedMs :
       LET r == Probe(status, consecutive_failures, out, ms, ms2) IN
       /\ ms2 >= ms
       /\ status' = r.status
       /\ response' = out
       /\ consecutive_failures' = r.cf
       /\ offline_run' = (IF r.status.online THEN 0 ELSE offline_run + 1)
       /\ nagging' = (~r.status.online
                        /\ (nagging \/ r.cf >= MAX_CONSECUTIVE_FAILURES))
       /\ IF ShouldNotify(last_status, r.status, r.cf)
          THEN /\ triggered' = TRUE
               /\ pc' = "fetch_user"
               /\ last_status' = last_status
          ELSE /\ triggered' = FALSE
               /\ pc' = "sleep"
               /\ last_status' = Some(r.status)
  /\ UNCHANGED <<ready, ready_events, start_failed, status_channel, user, embed, cycle,
                 prev_online, escaped,
                 channel_out, dm_out, dm_attempted, console>>


(* ---------------------------- report_status --------------------------- *)
FetchUserErrors == {"NotFound", "ClientConnectorError"}
ChannelSendErrors == {"Forbidden", "ClientConnectorError"}
UserSendErrors == {"Forbidden", "HTTPException"}

(* lines 128-139 *)
Embed(st) ==
  [title |-> <<website_name, "Status Update">>,
   url |-> website_home_url,
   description |-> st.message,
   color |-> IF st.online THEN "green" ELSE "red",
   timestamp |-> st.timestamp,
   fields |-> << <<"Status", IF st.online THEN "Online" ELSE "Offline">>,
                 <<"Response Time", st.response_time>>,
                 <<"Checked URL", check_url>> >>,
   footer |-> "Website Monitor Bot"]

(* lines 119-125 without the `if not user` guard *)
ResolveNoUserCheck(ch, usr) ==
  IF ~ch THEN "no_channel" ELSE "send"

(* lines 119-125: the two guards, in the order of the code *)
Resolve(ch, usr) ==
  IF ~ch THEN "no_channel"
  ELSE IF ~usr THEN "no_user"
  ELSE "send"

(* lines 145-150 with only the `except discord.Forbidden` clause *)
UserSendResultForbiddenOnly(outcome) ==
  IF outcome = "ok" THEN "sent"
  ELSE IF outcome = "Forbidden" THEN "dm_forbidden"
  ELSE "raise"

(* lines 145-150: what the try statement around user.send does with the   *)
(* outcome of the send                                                    *)
UserSendResult(outcome) ==
  IF outcome = "ok" THEN "sent"
  ELSE IF outcome = "Forbidden" THEN "dm_forbidden"
  ELSE "dm_error"

(* an exception leaves report_status and check_website (no handler in     *)
(* either): line 112 is not reached, the loop of line 63 takes over       *)
Escape(exc) ==
  /\ escaped' = (IF Retryable(exc) THEN "retry" ELSE "fatal")
  /\ pc' = LoopAfterError(exc)
  /\ last_status' = last_status

(* report_status returned: line 112, then the loop sleeps *)
FinishCycle ==
  /\ last_status' = Some(status)
  /\ pc' = "sleep"
  /\ escaped' = escaped

(* lines 116-139: get_channel (cache lookup, ch is what it found) and the *)
(* awaited fetch_user, which returns a user, returns nothing, or raises   *)
ReportResolve ==
  /\ pc = "fetch_user"
  /\ \E ch \in BOOLEAN, fetched \in {"user", "nothing"} \cup FetchUserErrors :
       /\ status_channel' = (IF ch THEN "found" ELSE "None")
       /\ IF fetched \in FetchUserErrors
          THEN /\ Escape(fetched)
               /\ UNCHANGED <<user, embed, console>>
          ELSE /\ user' = (IF fetched = "user" THEN "found" ELSE "None")
               /\ LET res == Resolve(ch, fetched = "user") IN
                  IF res = "send"
                  THEN /\ embed' = Embed(status)
                       /\ pc' = "channel_send"
                       /\ UNCHANGED <<last_status, escaped, console>>
                  ELSE /\ console' = console \cup {res}
                       /\ FinishCycle
                       /\ embed' = embed
  /\ UNCHANGED <<consecutive_failures, ready, ready_events, start_failed, status,
                 response,
                 cycle, prev_online, offline_run, nagging, triggered, channel_out,
                 dm_out, dm_attempted>>

(* line 142 inside a try statement that swallows the failure and goes on  *)
(* to the DM                                                              *)
ChannelSendIgnoresError ==
  /\ pc = "channel_send"
  /\ \E outcome \in {"ok"} \cup ChannelSendErrors :
       /\ channel_out' = (IF outcome = "ok" THEN Append(channel_out, embed)
                          ELSE channel_out)
       /\ pc' = "user_send"
       /\ UNCHANGED <<last_status, escaped>>
  /\ UNCHANGED <<consecutive_failures, ready, ready_events, start_failed, status,
                 response, status_channel, user, embed, cycle, prev_online,
                 offline_run, nagging, triggered, dm_out, dm_attempted, console>>

(* line 142 *)
ChannelSend ==
  /\ pc = "channel_send"
  /\ \E outcome \in {"ok"} \cup ChannelSendErrors :
       IF outcome = "ok"
       THEN /\ channel_out' = Append(channel_out, embed)
            /\ pc' = "user_send"
            /\ UNCHANGED <<last_status, escaped>>
       ELSE /\ Escape(outcome)
            /\ channel_out' = channel_out
  /\ UNCHANGED <<consecutive_failures, ready, ready_events, start_failed, status,
                 response,
                 status_channel, user, embed, cycle, prev_online, offline_run, nagging,
                 triggered, dm_out,
                 dm_attempted, console>>

(* lines 145-150 *)
UserSend ==
  /\ pc = "user_send"
  /\ \E outcome \in {"ok"} \cup UserSendErrors :
       LET res == UserSendResult(outcome) IN
       /\ dm_attempted' = TRUE
       /\ IF res = "raise"
          THEN /\ Escape(outcome)
               /\ UNCHANGED <<dm_out, console>>
          ELSE /\ FinishCycle
               /\ dm_out' = (IF res = "sent" THEN Append(dm_out, embed) ELSE dm_out)
               /\ console' = (IF res = "sent" THEN console ELSE console \cup {res})
  /\ UNCHANGED <<consecutive_failures, ready, ready_events, start_failed, status,
                 response,
                 status_channel, user, embed, cycle, prev_online, offline_run, nagging,
                 triggered, channel_out>>

(* ---------------------------- specification --------------------------- *)
Next ==
  \/ OnReady
  \/ BeforeLoop
  \/ IntervalElapsed
  \/ BackoffElapsed
  \/ ProbeBegin
  \/ ProbeEnd
  \/ ReportResolve
  \/ ChannelSend
  \/ UserSend

Spec == Init /\ [][Next]_vars


(* ------------------------------ properties ---------------------------- *)
InCycle == pc \in {"get", "fetch_user", "channel_send", "user_send"}

(* the probe and the decision of the current cycle are done *)
Decided == cycle >= 1 /\ pc # "get"

(* the body of the current cycle is over, by return or by exception *)
CycleEnded == cycle >= 1 /\ ~InCycle

(* the body of the current cycle returned *)
CycleReturned == CycleEnded /\ escaped = "none"

(* C1: after every cycle's probe, consecutive_failures equals the length   *)
(* of the run of offline records ending at that cycle (0 after an online   *)
(* record), whichever path the probe took.                                 *)
C1_CounterIsOfflineRun ==
  Decided => consecutive_failures = offline_run

(* C2: the first cycle after process start always calls report_status,     *)
(* whether its record is online or offline.                                *)
C2_FirstCycleNotifies ==
  (cycle = 1 /\ Decided) => triggered

C2_Witness ==
  /\ cycle = 1
  /\ pc = "sleep"
  /\ status.online
  /\ triggered
  /\ Len(channel_out) = 1

(* C3: on every cycle whose record's online flag differs from that of the  *)
(* previous cycle's record, report_status is called on that cycle.         *)
C3_TransitionNotifies ==
  (Decided /\ prev_online # <<>> /\ prev_online[1] # status.online) => triggered

(* C4: on a cycle that is not the first, whose record and whose previous   *)
(* cycle's record are both offline, with the updated counter below         *)
(* MAX_CONSECUTIVE_FAILURES, report_status is not called.                  *)
C4_NoRepeatBelowThreshold ==
  (/\ Decided
   /\ cycle > 1
   /\ ~status.online
   /\ prev_online = <<FALSE>>
   /\ consecutive_failures < MAX_CONSECUTIVE_FAILURES) => ~triggered

(* C5: once an offline cycle has the updated counter at the threshold, it  *)
(* and every following offline cycle calls report_status until an online   *)
(* record; with outcomes online, offline, offline, offline, offline the    *)
(* calls are on cycles 1, 2, 4 and 5 and not on cycle 3.                   *)
C5_SustainedNag ==
  /\ (Decided /\ nagging) => triggered
  /\ (Decided /\ ~status.online /\ offline_run = cycle - 1 /\ cycle >= 2)
       => (triggered <=> cycle # 3)

(* C6: at the end of every cycle last_status is that cycle's record,       *)
(* whatever happened inside report_status.                                 *)
C6_LastStatusReplaced ==
  CycleEnded => last_status = Some(status)

(* C7: no error inside a cycle is raised out of the check_website body,    *)
(* and the loop is never ended by one.                                     *)
C7_NoErrorEscapes ==
  escaped = "none" /\ pc # "stopped"

(* C8: when user.send fails on a notifying cycle, the channel message of   *)
(* that cycle has been sent, nothing propagates out of report_status, the  *)
(* counter stays as the probe set it and last_status becomes that cycle's  *)
(* record.                                                                 *)
C8_DmFailureContained ==
  [][(pc = "user_send" /\ dm_attempted' /\ dm_out' = <<>>) =>
       /\ channel_out' = <<Embed(status)>>
       /\ escaped' = "none"
       /\ pc' = "sleep"
       /\ consecutive_failures' = consecutive_failures
       /\ last_status' = Some(status)]_vars

C8_Witness ==
  /\ dm_attempted
  /\ dm_out = <<>>
  /\ "dm_error" \in console
  /\ triggered
  /\ pc = "sleep"
  /\ Len(channel_out) = 1

C10_NoChannelAborts ==
  (status_channel = "None" /\ pc # "fetch_user") =>
     /\ channel_out = <<>>
     /\ dm_out = <<>>
     /\ ~dm_attempted
     /\ "no_channel" \in console
     /\ CycleReturned


(* the content type begins with the six characters of "image/" *)
BeginsWithImage(ct) ==
  /\ Len(ct) >= 6
  /\ ct[1] = "i" /\ ct[2] = "m" /\ ct[3] = "a"
  /\ ct[4] = "g" /\ ct[5] = "e" /\ ct[6] = "/"

(* C11: a cycle's record is online exactly when the GET completed without  *)
(* an exception with status 200 and a content type beginning with image/;  *)
(* every other outcome gives an offline record that is counted as a        *)
(* failure, and 200 with text/html gives a message naming that type.       *)
C11_OnlineIffOkImage ==
  Decided =>
    /\ status.online <=> (/\ response.kind = "response"
                          /\ response.exit_error = "none"
                          /\ response.code = 200
                          /\ BeginsWithImage(response.ctype))
    /\ ~status.online => (consecutive_failures >= 1 /\ offline_run >= 1)
    /\ (/\ response.kind = "response"
        /\ response.exit_error = "none"
        /\ response.code = 200
        /\ response.ctype = TextHtml)
         => (/\ ~status.online
             /\ status.message.code = 200
             /\ status.message.ctype = TextHtml)

C11_Witness ==
  /\ Decided
  /\ response.kind = "response"
  /\ response.exit_error = "none"
  /\ response.code = 200
  /\ response.ctype = TextHtml
  /\ ~status.online
  /\ consecutive_failures = 1

(* C12: a cycle starts only when no body of check_website is in progress:  *)
(* the body of the cycle before it has returned (with last_status          *)
(* replaced) or has ended by an exception; last_status and the counter     *)
(* are written only from inside the one running cycle.                     *)
C12_CyclesSequential ==
  [][/\ (cycle' # cycle) =>
          (/\ pc = "tick"
           /\ (cycle = 0 \/ escaped # "none" \/ last_status = Some(status)))
     /\ (last_status' # last_status \/ consecutive_failures' # consecutive_failures)
          => InCycle]_vars

C12_Witness ==
  /\ cycle = 2
  /\ pc = "get"
  /\ last_status # None
  /\ last_status[1].timestamp = 1
  /\ start_failed

(* C13: no probe runs before the session has reported ready, and the loop  *)
(* never waits an interval before its first cycle.                         *)
C13_ReadyFirstNoInitialWait ==
  /\ (cycle >= 1 \/ InCycle) => ready
  /\ cycle = 0 => pc \in {"unstarted", "before_loop", "tick"}

C13_Witness ==
  /\ cycle = 1
  /\ pc = "get"
  /\ ready
  /\ ready_events = 1

(* C14: in a cycle the DM is attempted only after the channel send of that *)
(* cycle succeeded, a delivered DM carries the payload the channel got,    *)
(* and at most one channel message and one DM are sent.                    *)
C14_ChannelBeforeDm ==
  /\ Len(channel_out) <= 1
  /\ Len(dm_out) <= 1
  /\ (dm_attempted \/ pc = "user_send") => channel_out = <<Embed(status)>>
  /\ dm_out # <<>> => (dm_attempted /\ dm_out = channel_out)

C14_Witness ==
  /\ Len(dm_out) = 1
  /\ dm_out = channel_out
  /\ dm_out[1].timestamp = cycle
  /\ pc = "sleep"

(* C15: a cycle whose record is online and whose previous cycle's record   *)
(* is online never calls report_status.                                    *)
C15_SilentWhileHealthy ==
  (Decided /\ status.online /\ prev_online = <<TRUE>>) => ~triggered

=============================================================================
